---- MODULE Spec2Model ----
(***************************************************************************)
(* A model of linode_dynamic_dns.py: the reconciliation pass update_dns,   *)
(* the IP discovery get_ip, the LinodeAPI client calls and the loop of     *)
(* main.  The provider (its domains, its records) and the two discovery    *)
(* endpoints are the environment.                                          *)
(*                                                                         *)
(* Strings the program takes apart (HOST, record names) are sequences of   *)
(* one-character strings, so that split(",") and strip() are computed.     *)
(* Addresses are [version, value]: ip_address parses a text into one and   *)
(* Str prints one in its canonical form.                                   *)
(*                                                                         *)
(* Environment assumptions: the provider stores a created record's name    *)
(* and an updated target exactly as sent, appends a created record to the  *)
(* end of the record list, and applies a call only when it answers 200;    *)
(* each discovery endpoint gives the same answer for the whole run.        *)
(***************************************************************************)
EXTENDS Integers, Sequences, FiniteSets, TLC

\* ---------------------------------------------------------------- bounds
MaxHosts == 2
MaxRecords == 2
MaxPasses == 2

\* ------------------------------------------------------------- addresses
\* Python's None, a local name not yet bound, and a text ip_address rejects
None == [version |-> 0, value |-> 0]
Unbound == [version |-> 0, value |-> 1]
Invalid == [version |-> 0, value |-> 2]

\* ipaddress.ip_address(text): None of these texts is kept as is
ip_address(text) ==
  CASE text = "1.1.1.1" -> [version |-> 4, value |-> 16843009]
    [] text = "2.2.2.2" -> [version |-> 4, value |-> 33686018]
    [] text = "::1" -> [version |-> 6, value |-> 1]
    [] text = "0:0:0:0:0:0:0:1" -> [version |-> 6, value |-> 1]
    [] text = "::2" -> [version |-> 6, value |-> 2]
    [] OTHER -> Invalid

\* str(address): the canonical text
Str(ip) ==
  CASE ip = [version |-> 4, value |-> 16843009] -> "1.1.1.1"
    [] ip = [version |-> 4, value |-> 33686018] -> "2.2.2.2"
    [] ip = [version |-> 6, value |-> 1] -> "::1"
    [] ip = [version |-> 6, value |-> 2] -> "::2"
    [] OTHER -> "None"

\* content.decode().strip() of the bodies the endpoints answer with
DecodeStrip(body) ==
  CASE body = "2.2.2.2\n" -> "2.2.2.2"
    [] body = "0:0:0:0:0:0:0:1\n" -> "0:0:0:0:0:0:0:1"
    [] body = "\n" -> ""
    [] OTHER -> body

\* ---------------------------------------------------------- host strings
\* str.split(","): cur is the token being read
RECURSIVE SplitAcc(_, _)
SplitAcc(s, cur) ==
  IF s = <<>> THEN <<cur>>
  ELSE IF Head(s) = "," THEN <<cur>> \o SplitAcc(Tail(s), <<>>)
  ELSE SplitAcc(Tail(s), Append(cur, Head(s)))

Split(s) == SplitAcc(s, <<>>)

RECURSIVE LStrip(_)
LStrip(s) == IF s # <<>> /\ Head(s) = " " THEN LStrip(Tail(s)) ELSE s

RECURSIVE RStrip(_)
RStrip(s) ==
  IF s # <<>> /\ s[Len(s)] = " " THEN RStrip(SubSeq(s, 1, Len(s) - 1)) ELSE s

\* str.strip()
Strip(s) == RStrip(LStrip(s))

\* the host tokens a HOST value is written from
Tokens == { <<>>, <<"@">>, <<"w">>, <<" ", "w">> }

RECURSIVE Join(_)
Join(toks) ==
  IF Len(toks) = 1 THEN toks[1] ELSE toks[1] \o <<",">> \o Join(Tail(toks))

HostStrings ==
  { Join(toks) : toks \in UNION { [1..n -> Tokens] : n \in 1..MaxHosts } }

\* ------------------------------------------------------------- provider
Domains ==
  << [id |-> 1, domain |-> "example.net"], [id |-> 2, domain |-> "example.com"] >>

DomainNames == { "example.com", "EXAMPLE.COM" }

\* what a record of the provider may be before the first pass
RecordShapes ==
  { [name |-> n, type |-> t, target |-> IF t = "A" THEN "1.1.1.1" ELSE "::2"] :
      n \in { <<>>, <<"w">> }, t \in { "A", "AAAA" } }
  \cup { [name |-> <<"w">>, type |-> "TXT", target |-> "1.1.1.1"],
         [name |-> <<"w">>, type |-> "CNAME", target |-> "example.net"] }

WithIds(shapes) ==
  [k \in 1..Len(shapes) |->
     [id |-> k, name |-> shapes[k].name, type |-> shapes[k].type,
      target |-> shapes[k].target]]

RecordLists ==
  { WithIds(shapes) :
      shapes \in UNION { [1..n -> RecordShapes] : n \in 0..MaxRecords } }

\* what a discovery endpoint does: refuse the connection, or answer a body
EndpointOutcomes(version) ==
  IF version = 4
  THEN { [ok |-> FALSE, body |-> ""], [ok |-> TRUE, body |-> "\n"],
         [ok |-> TRUE, body |-> "2.2.2.2\n"] }
  ELSE { [ok |-> TRUE, body |-> "unknown"], [ok |-> TRUE, body |-> "2.2.2.2\n"],
         [ok |-> TRUE, body |-> "0:0:0:0:0:0:0:1\n"] }

NotAsked == [ok |-> FALSE, body |-> "?"]

\* the statuses the provider answers a PUT or POST with, and a GET with
Statuses == { 200, 202, 500 }
GetStatuses == { 200, 500 }

\* the answers to n create calls made one after the other: a call after one
\* that was not answered 200 is answered 200 if it is made at all
CreateAnswers(n) ==
  { a \in [1..n -> Statuses] : \A k \in 1..(n - 1) : a[k] # 200 => a[k + 1] = 200 }

VARIABLES domain, host, sleep, records, endpoint, pc, pass, domain_id, hosts,
          local_ip4, local_ip6, local_ip, i, calls, error, raised_in,
          exit_status, start_records

vars == << domain, host, sleep, records, endpoint, pc, pass, domain_id, hosts,
           local_ip4, local_ip6, local_ip, i, calls, error, raised_in,
           exit_status, start_records >>

config == << domain, host, sleep >>

\* ------------------------------------------------------------ LinodeAPI
\* one entry of the log of calls the process makes to the outside
Call(p, op, hidx, rid, name, type, target, status) ==
  [pass |-> p, op |-> op, host |-> hidx, rid |-> rid, name |-> name,
   type |-> type, target |-> target, status |-> status]

\* request() of a GET: urlopen raises HTTPError unless the answer is 2xx
GetError(status) == IF status \in 200..299 THEN "" ELSE "HTTPError"

ApiError_unchecked(status) == IF status \in 200..299 THEN "" ELSE "HTTPError"

\* update_domain_record_target and create_domain_host_record: urlopen raises
\* HTTPError unless the answer is 2xx, and the method raises HTTPException
\* unless it is 200
ApiError(status) ==
  IF status \notin 200..299 THEN "HTTPError"
  ELSE IF status # 200 THEN "HTTPException"
  ELSE ""

RaisedIn(err, method) ==
  IF err = "" THEN "" ELSE IF err = "HTTPError" THEN "request" ELSE method

FindDomain_last(ds, name) ==
  LET hit == { k \in 1..Len(ds) : ds[k].domain = name }
  IN IF hit = {} THEN ds[Len(ds)].id
     ELSE ds[CHOOSE k \in hit : \A m \in hit : k <= m].id

\* update_dns, the search for the domain: the id of the first domain whose
\* name is the configured one, 0 for None
FindDomain(ds, name) ==
  LET hit == { k \in 1..Len(ds) : ds[k].domain = name }
  IN IF hit = {} THEN 0
     ELSE ds[CHOOSE k \in hit : \A m \in hit : k <= m].id

\* ---------------------------------------------------------------- get_ip
\* get_ip(version) on an endpoint outcome: the address or None, or ValueError
get_ip(version, outcome) ==
  IF ~outcome.ok THEN [error |-> "", ip |-> None]
  ELSE LET ip == ip_address(DecodeStrip(outcome.body))
       IN IF ip = Invalid THEN [error |-> "ValueError", ip |-> None]
          ELSE IF ip.version = version THEN [error |-> "", ip |-> ip]
          ELSE [error |-> "", ip |-> None]

\* ------------------------------------------------------------ update_dns
\* the condition of line 127
Matches(record, h) ==
  record.name = Strip(h) \/ (record.name = <<>> /\ Strip(h) = <<"@">>)

\* the record the inner loop stops at: the first one that matches, 0 if none
FirstMatch(recs, h) ==
  LET hit == { k \in 1..Len(recs) : Matches(recs[k], h) }
  IN IF hit = {} THEN 0 ELSE CHOOSE k \in hit : \A m \in hit : k <= m

LocalIpFor_swapped(type, ip4, ip6, lip) ==
  IF type = "A" THEN ip4 ELSE IF type = "AAAA" THEN ip4 ELSE lip

\* lines 131-135: local_ip after the two tests on the record's type; a
\* record of another type leaves the name as the pass left it
LocalIpFor(type, ip4, ip6, lip) ==
  IF type = "A" THEN ip4 ELSE IF type = "AAAA" THEN ip6 ELSE lip

NeedsUpdate_always(lip, rip) == lip # None

\* line 140
NeedsUpdate(lip, rip) == lip # None /\ lip # rip

\* line 150, the tokens a record is created for
Creatable(h) == Strip(h) # <<>> /\ Strip(h) # <<"@">>

CreateTypes_elif(ip4, ip6) ==
  IF ip4 # None THEN <<"A">> ELSE IF ip6 # None THEN <<"AAAA">> ELSE <<>>

\* lines 154 and 161: the types of the records to create, in order
CreateTypes(ip4, ip6) ==
  (IF ip4 # None THEN <<"A">> ELSE <<>>) \o (IF ip6 # None THEN <<"AAAA">> ELSE <<>>)

\* lines 154-166: the create calls, up to the first one that raises; answers
\* holds the statuses of the calls, in order
RECURSIVE CreateAll(_, _, _, _, _, _, _, _)
CreateAll(types, recs, p, h, hidx, ip4, ip6, answers) ==
  IF types = <<>> THEN [records |-> recs, calls |-> <<>>, error |-> ""]
  ELSE
    LET t == Head(types)
        ip == IF t = "A" THEN ip4 ELSE ip6
        s == Head(answers)
        c == Call(p, "create", hidx, 0, h, t, Str(ip), s)
        made == Append(recs, [id |-> Len(recs) + 1, name |-> h, type |-> t,
                              target |-> Str(ip)])
    IN IF ApiError(s) # ""
       THEN [records |-> recs, calls |-> <<c>>, error |-> ApiError(s)]
       ELSE LET rest == CreateAll(Tail(types), made, p, h, hidx, ip4, ip6,
                                  Tail(answers))
            IN [records |-> rest.records, calls |-> <<c>> \o rest.calls,
                error |-> rest.error]

\* ---------------------------------------------------------------- states
Init ==
  /\ domain \in DomainNames
  /\ host \in HostStrings
  /\ sleep \in BOOLEAN
  /\ records \in RecordLists
  /\ endpoint = [v \in {4, 6} |-> NotAsked]
  /\ pc = "update_dns"
  /\ pass = 1
  /\ domain_id = 0
  /\ hosts = <<>>
  /\ local_ip4 = Unbound
  /\ local_ip6 = Unbound
  /\ local_ip = Unbound
  /\ i = 0
  /\ calls = <<>>
  /\ error = ""
  /\ raised_in = ""
  /\ exit_status = -1
  /\ start_records = records

\* an exception nothing catches, or sys.exit(1): the process ends with status 1
Raise(err, where) ==
  /\ pc' = "exited"
  /\ error' = err
  /\ raised_in' = where
  /\ exit_status' = 1

\* update_dns, lines 104-116
ResolveDomain ==
  /\ pc = "update_dns"
  /\ \E s \in GetStatuses :
       /\ calls' = Append(calls, Call(pass, "get_domains", 0, 0, <<>>, "", "", s))
       /\ IF GetError(s) # ""
          THEN /\ Raise(GetError(s), "request")
               /\ UNCHANGED << domain_id, hosts >>
          ELSE /\ domain_id' = FindDomain(Domains, domain)
               /\ IF domain_id' = 0
                  THEN /\ Raise("SystemExit", "update_dns")
                       /\ UNCHANGED hosts
                  ELSE /\ hosts' = Split(host)
                       /\ pc' = "get_ip4"
                       /\ UNCHANGED << error, raised_in, exit_status >>
  /\ UNCHANGED << config, records, endpoint, pass, local_ip4, local_ip6,
                  local_ip, i, start_records >>

\* update_dns, lines 117 and 118: get_ip(4), then get_ip(6)
GetIp(version) ==
  /\ pc = IF version = 4 THEN "get_ip4" ELSE "get_ip6"
  /\ \E o \in EndpointOutcomes(version) :
       /\ endpoint[version] \in { NotAsked, o }
       /\ endpoint' = [endpoint EXCEPT ![version] = o]
       /\ calls' = Append(calls, Call(pass, "get_ip", 0, 0, <<>>,
                                      IF version = 4 THEN "4" ELSE "6",
                                      Str(get_ip(version, o).ip), 0))
       /\ IF get_ip(version, o).error # ""
          THEN /\ Raise(get_ip(version, o).error, "get_ip")
               /\ UNCHANGED << local_ip4, local_ip6, i >>
          ELSE /\ IF version = 4
                  THEN /\ local_ip4' = get_ip(version, o).ip
                       /\ pc' = "get_ip6"
                       /\ UNCHANGED << local_ip6, i >>
                  ELSE /\ local_ip6' = get_ip(version, o).ip
                       /\ pc' = "hosts"
                       /\ i' = 1
                       /\ UNCHANGED local_ip4
               /\ UNCHANGED << error, raised_in, exit_status >>
  /\ UNCHANGED << config, records, pass, domain_id, hosts, local_ip,
                  start_records >>

\* the end of a turn of the loop over the host tokens: what the turn did to
\* the records and to local_ip, the calls it made and what it raised
EndTurn(recs, lip, made, err, where) ==
  /\ records' = recs
  /\ local_ip' = lip
  /\ calls' = calls \o made
  /\ IF err # ""
     THEN /\ Raise(err, where)
          /\ UNCHANGED i
     ELSE /\ i' = i + 1
          /\ pc' = IF i = Len(hosts) THEN "returned" ELSE "hosts"
          /\ UNCHANGED << error, raised_in, exit_status >>

\* lines 127-148: the turn for a token that the record recs[k] matches
TurnFound(k, listed) ==
  LET record == records[k]
      lip == LocalIpFor(record.type, local_ip4, local_ip6, local_ip)
      record_ip == ip_address(record.target)
  IN
  IF record_ip = Invalid
  THEN EndTurn(records, lip, <<listed>>, "ValueError", "update_dns")
  ELSE IF lip = Unbound
  THEN EndTurn(records, lip, <<listed>>, "UnboundLocalError", "update_dns")
  ELSE IF NeedsUpdate(lip, record_ip)
  THEN \E sU \in Statuses :
         LET put == Call(pass, "update", i, record.id, record.name, record.type,
                         Str(lip), sU)
         IN IF ApiError(sU) # ""
            THEN EndTurn(records, lip, <<listed, put>>, ApiError(sU),
                         RaisedIn(ApiError(sU), "update_domain_record_target"))
            ELSE EndTurn([records EXCEPT ![k].target = Str(lip)], lip,
                         <<listed, put>>, "", "")
  ELSE EndTurn(records, lip, <<listed>>, "", "")

\* lines 150-166: the turn for a token that no record matches
TurnNotFound(listed) ==
  IF Creatable(hosts[i])
  THEN \E answers \in CreateAnswers(Len(CreateTypes(local_ip4, local_ip6))) :
         LET r == CreateAll(CreateTypes(local_ip4, local_ip6), records, pass,
                            hosts[i], i, local_ip4, local_ip6, answers)
         IN EndTurn(r.records, local_ip, <<listed>> \o r.calls, r.error,
                    RaisedIn(r.error, "create_domain_host_record"))
  ELSE EndTurn(records, local_ip, <<listed>>, "", "")

\* update_dns, lines 120-166: the turn of the loop for hosts[i]
ReconcileHost ==
  /\ pc = "hosts"
  /\ \E sL \in GetStatuses :
       LET listed == Call(pass, "get_domain_records", i, 0, <<>>, "", "", sL)
           k == FirstMatch(records, hosts[i])
       IN IF GetError(sL) # ""
          THEN EndTurn(records, local_ip, <<listed>>, GetError(sL), "request")
          ELSE IF k # 0 THEN TurnFound(k, listed)
          ELSE TurnNotFound(listed)
  /\ UNCHANGED << config, endpoint, pass, domain_id, hosts, local_ip4,
                  local_ip6, start_records >>

\* main, lines 193-195: continuous mode sleeps and calls update_dns again
MainSleep ==
  /\ pc = "returned"
  /\ sleep
  /\ pass < MaxPasses
  /\ pc' = "update_dns"
  /\ pass' = pass + 1
  /\ domain_id' = 0
  /\ hosts' = <<>>
  /\ local_ip4' = Unbound
  /\ local_ip6' = Unbound
  /\ local_ip' = Unbound
  /\ i' = 0
  /\ start_records' = records
  /\ UNCHANGED << config, records, endpoint, calls, error, raised_in, exit_status >>

\* main, line 197: a single pass, then the process ends with status 0
MainExit ==
  /\ pc = "returned"
  /\ ~sleep
  /\ pc' = "exited"
  /\ exit_status' = 0
  /\ UNCHANGED << config, records, endpoint, pass, domain_id, hosts, local_ip4,
                  local_ip6, local_ip, i, calls, error, raised_in, start_records >>

Next ==
  \/ ResolveDomain
  \/ \E version \in {4, 6} : GetIp(version)
  \/ ReconcileHost
  \/ MainSleep
  \/ MainExit

Spec == Init /\ [][Next]_vars

\* ---------------------------------------------------------------- claims
\* the calls of the current pass
PassCalls == SelectSeq(calls, LAMBDA c : c.pass = pass)

Mutating(c) == c.op \in { "update", "create" }

\* the matching rule of the data model, on trimmed tokens
NameMatches(name, h) ==
  name = Strip(h) \/ (name = <<>> /\ Strip(h) = <<"@">>)

NoMatch(recs, h) == \A k \in 1..Len(recs) : ~NameMatches(recs[k].name, h)

BareOrEmpty(h) == Strip(h) = <<>> \/ Strip(h) = <<"@">>

\* the calls the step being taken adds to the log
NewCalls == SubSeq(calls', Len(calls) + 1, Len(calls'))

NewCreates == SelectSeq(NewCalls, LAMBDA c : c.op = "create")

AllAnswered200 == \A k \in 1..Len(NewCalls) : NewCalls[k].status = 200

\* the loop is at a token no record matches, both addresses were discovered
\* and the provider answers every call of the turn with 200
UnmatchedTurn ==
  /\ pc = "hosts"
  /\ NoMatch(records, hosts[i])
  /\ local_ip4 # None
  /\ local_ip6 # None
  /\ AllAnswered200

TwoCreates ==
  /\ Len(NewCreates) = 2
  /\ NewCreates[1].type = "A" /\ NewCreates[1].target = Str(local_ip4)
  /\ NewCreates[2].type = "AAAA" /\ NewCreates[2].target = Str(local_ip6)
  /\ \A k \in 1..2 : NewCreates[k].name = hosts[i]

\* the first A record of recs that matches h, 0 if none
FirstA(recs, h) ==
  LET hit == { k \in 1..Len(recs) :
                 recs[k].type = "A" /\ NameMatches(recs[k].name, h) }
  IN IF hit = {} THEN 0 ELSE CHOOSE k \in hit : \A m \in hit : k <= m

\* C1: at the end of a pass, for every host token that an A record matched at
\* the start of the pass, the target of (the first such) A record differing
\* from the discovered IPv4 address, an update call with that address was
\* issued for that record and no create call was issued for the token,
\* whatever other records precede the A record.
C1_UpdatesMatchingA ==
  (pc = "returned" /\ local_ip4 # None) =>
    \A j \in 1..Len(hosts) :
      LET k == FirstA(start_records, hosts[j])
      IN (k # 0 /\ ip_address(start_records[k].target) # local_ip4) =>
           /\ \E n \in 1..Len(PassCalls) :
                /\ PassCalls[n].op = "update"
                /\ PassCalls[n].rid = start_records[k].id
                /\ PassCalls[n].target = Str(local_ip4)
           /\ \A n \in 1..Len(PassCalls) :
                PassCalls[n].op = "create" => PassCalls[n].host # j

\* C2 (as stated): at every token no record matches, "@" and the empty token
\* included, with both addresses discovered and every call answered 200, the
\* turn issues exactly two create calls, A with the IPv4 address and AAAA
\* with the IPv6 address.
C2_TwoCreatesForEveryToken == [][UnmatchedTurn => TwoCreates]_vars

\* C2 (amended): the same for the tokens that are neither empty nor "@" after
\* trimming; for "@" and the empty token the turn issues no create call.
C2_TwoCreatesForNamedToken ==
  [][UnmatchedTurn =>
       IF BareOrEmpty(hosts[i]) THEN Len(NewCreates) = 0 ELSE TwoCreates]_vars

C2_Witness ==
  \E k \in 1..Len(calls) - 1 :
    /\ calls[k].op = "create" /\ calls[k].type = "A" /\ calls[k].status = 200
    /\ calls[k + 1].op = "create" /\ calls[k + 1].type = "AAAA"
    /\ calls[k + 1].status = 200
    /\ calls[k + 1].host = calls[k].host /\ calls[k + 1].pass = calls[k].pass
    /\ calls[k - 1].op = "get_domain_records"

\* C3: in a pass in which IPv6 discovery returned no address, no create call
\* of type AAAA is issued and no update call is issued against an AAAA record;
\* and when the pass ends with an IPv4 address discovered, every token that
\* is neither empty nor "@" and that no record matched at the start of the
\* pass has had its A record created.
C3_NoAAAACallWithoutIPv6 ==
  local_ip6 = None =>
    /\ \A n \in 1..Len(PassCalls) :
         Mutating(PassCalls[n]) => PassCalls[n].type # "AAAA"
    /\ (pc = "returned" /\ local_ip4 # None) =>
         \A j \in 1..Len(hosts) :
           (~BareOrEmpty(hosts[j]) /\ NoMatch(start_records, hosts[j])) =>
             \E n \in 1..Len(PassCalls) :
               /\ PassCalls[n].op = "create" /\ PassCalls[n].type = "A"
               /\ Strip(PassCalls[n].name) = Strip(hosts[j])
               /\ PassCalls[n].target = Str(local_ip4)

\* the scenario HOST=@,w with an A record for the bare domain: one update,
\* one A create, IPv6 absent
C3_Witness ==
  /\ local_ip6 = None /\ local_ip4 # None /\ pc = "returned"
  /\ \E n \in 1..Len(PassCalls) :
       PassCalls[n].op = "update" /\ PassCalls[n].type = "A"
  /\ \E n \in 1..Len(PassCalls) :
       PassCalls[n].op = "create" /\ PassCalls[n].type = "A"
  /\ \E k \in 1..Len(start_records) : start_records[k].type = "AAAA"

\* every record matching a configured token is an A or AAAA record whose
\* target is the discovered address of its family, and every token a record
\* is created for has one
AllCorrect(recs, hs, ip4, ip6) ==
  \A j \in 1..Len(hs) :
    /\ \A k \in 1..Len(recs) :
         NameMatches(recs[k].name, hs[j]) =>
           \/ recs[k].type = "A" /\ ip4 \in { None, ip_address(recs[k].target) }
           \/ recs[k].type = "AAAA" /\ ip6 \in { None, ip_address(recs[k].target) }
    /\ (~BareOrEmpty(hs[j]) /\ (ip4 # None \/ ip6 # None)) => ~NoMatch(recs, hs[j])

\* C4: a pass that starts with all records already correct for the addresses
\* it discovers issues no update call and no create call; so the second of
\* two runs in succession with the same addresses issues none.
C4_Idempotent ==
  (local_ip6 # Unbound /\ AllCorrect(start_records, hosts, local_ip4, local_ip6)) =>
    \A n \in 1..Len(PassCalls) : ~Mutating(PassCalls[n])

C4_Witness ==
  /\ pass = 2 /\ pc = "returned"
  /\ local_ip4 # None /\ local_ip6 # None
  /\ AllCorrect(start_records, hosts, local_ip4, local_ip6)
  /\ \E n \in 1..Len(calls) : calls[n].pass = 1 /\ calls[n].op = "update"
  /\ \E n \in 1..Len(calls) : calls[n].pass = 1 /\ calls[n].op = "create"

DomainMissing == \A k \in 1..Len(Domains) : Domains[k].domain # domain

\* C5: when the list of domains was returned and none has exactly the
\* configured name, the process has ended with status 1 by sys.exit, in its
\* first pass, and the list-domains call is the only call it ever made.
C5_MissingDomainExits ==
  (DomainMissing /\ calls # <<>> /\ calls[1].status = 200) =>
    /\ pc = "exited" /\ exit_status = 1 /\ error = "SystemExit"
    /\ Len(calls) = 1 /\ calls[1].op = "get_domains"
    /\ pass = 1

C5_Witness ==
  DomainMissing /\ sleep /\ pc = "exited" /\ error = "SystemExit" /\ records # <<>>

\* what a call answered 200 did is in the records
Applied(c) ==
  IF c.op = "update" THEN records[c.rid].target = c.target
  ELSE \E k \in 1..Len(records) :
         /\ records[k].name = c.name /\ records[k].type = c.type
         /\ records[k].target = c.target

\* C6: an update or create call answered with another status than 200 is the
\* last call the process makes: the process has ended with a non-zero status
\* in the pass of that call, and what the earlier calls of the pass changed
\* is still in the records.
C6_FailedCallAborts ==
  \A k \in 1..Len(calls) :
    (Mutating(calls[k]) /\ calls[k].status # 200) =>
      /\ k = Len(calls)
      /\ pc = "exited" /\ exit_status = 1
      /\ error \in { "HTTPError", "HTTPException" }
      /\ pass = calls[k].pass
      /\ \A n \in 1..(k - 1) :
           (Mutating(calls[n]) /\ calls[n].pass = calls[k].pass) => Applied(calls[n])

C6_Witness ==
  /\ sleep /\ pc = "exited" /\ Len(calls) > 1
  /\ Mutating(calls[Len(calls)]) /\ calls[Len(calls)].status = 202
  /\ \E n \in 1..(Len(calls) - 1) :
       /\ calls[n].op = "update" /\ calls[n].pass = pass
       /\ calls[n].host # calls[Len(calls)].host

\* C7: get_ip never raises to its caller.
C7_GetIpNeverRaises == raised_in # "get_ip"

\* C8: no update call is issued against a record whose type is neither A nor
\* AAAA, and such a record does not make the pass fail.
C8_OtherTypesIgnored ==
  /\ \A n \in 1..Len(calls) :
       calls[n].op = "update" => calls[n].type \in { "A", "AAAA" }
  /\ ~(raised_in = "update_dns" /\ error \in { "ValueError", "UnboundLocalError" })

\* C9: when a token that is neither empty nor "@" occurs twice in the host
\* list and no record matched it at the start of the pass, create calls are
\* issued for it at its first occurrence only.
C9_CreatesAtFirstOccurrenceOnly ==
  \A j1 \in 1..Len(hosts) : \A j2 \in 1..Len(hosts) :
    ( /\ j1 < j2 /\ hosts[j1] = hosts[j2]
      /\ hosts[j1] # <<>> /\ hosts[j1] # <<"@">>
      /\ NoMatch(start_records, hosts[j1]) )
    => \A n \in 1..Len(PassCalls) :
         PassCalls[n].op = "create" => PassCalls[n].host # j2

\* C10: after a pass that completed with at least one address discovered,
\* every token that is neither empty nor "@" after trimming has a record
\* matching it.
C10_EveryNamedTokenHasRecord ==
  (pc = "returned" /\ (local_ip4 # None \/ local_ip6 # None)) =>
    \A j \in 1..Len(hosts) : ~BareOrEmpty(hosts[j]) => ~NoMatch(records, hosts[j])

====
